---------------------------- MODULE Spec2Model ----------------------------
(***************************************************************************)
(* A model of the EPA player comparison dashboard (src/app.py).            *)
(*                                                                         *)
(* Representation of the data frames:                                      *)
(*   - a table is a sequence of rows, a row is a record;                   *)
(*   - a text value (player name, team, player id, roster name) is a       *)
(*     sequence of string tokens, so that joining with "|" and splitting   *)
(*     on "|" are computed and not assumed;                                *)
(*   - a numeric value is a reduced fraction <<n, d>> with d > 0;          *)
(*   - a missing value (NaN / None) is the empty sequence << >>.           *)
(***************************************************************************)
EXTENDS Integers, Sequences, FiniteSets, TLC

VARIABLES
    src_pbp,                \* the provider's play-by-play table of the season
    src_rosters,            \* the provider's roster table of the season
    cache_pbp,              \* st.cache_data entry of load_pbp_data([season])
    cache_rosters,          \* st.cache_data entry of load_roster_data([season])
    position,               \* sidebar: "Select Position"
    selected_weeks,         \* sidebar: "Select Week(s)" ("All" is week 0)
    use_range,              \* sidebar: "Select week range?"
    week_end,               \* sidebar: "Through week:"
    selected_display_names, \* the multiselect's value, in selection order
    view,                   \* what the last run of main() put on the page
    call,                   \* SpecFn: the function applied and its arguments
    ret                     \* SpecFn: what the function returned

vars == <<src_pbp, src_rosters, cache_pbp, cache_rosters, position,
          selected_weeks, use_range, week_end, selected_display_names,
          view, call, ret>>

-----------------------------------------------------------------------------
(* Bounds of the model *)

\* longest play-by-play table drawn for a function application
MaxPlays == 2
\* weeks of the season that the model's tables and the week selector cover
MaxWeek == 2
\* longest Comparison Table handed to create_comparison_chart on its own
MaxRows == 3

-----------------------------------------------------------------------------
(* Missing values and numbers *)

NaN == << >>
None == << >>

isna(x) == x = NaN
notna(x) == x # NaN

\* pandas' ==: a missing value equals nothing, itself included
Eq(a, b) == notna(a) /\ notna(b) /\ a = b

Abs(i) == IF i < 0 THEN -i ELSE i

RECURSIVE GCD(_, _)
GCD(a, b) == IF b = 0 THEN a ELSE GCD(b, a % b)

Frac(n, d) ==
    LET g == GCD(Abs(n), d)
    IN  <<n \div g, d \div g>>

R(i) == <<i, 1>>

RatAdd(a, b) ==
    LET g == GCD(a[2], b[2])
        l == (a[2] \div g) * b[2]
    IN  Frac(a[1] * (l \div a[2]) + b[1] * (l \div b[2]), l)

RatDivInt(a, k) == Frac(a[1], a[2] * k)
RatMulInt(a, k) == Frac(a[1] * k, a[2])
RatLE(a, b) == a[1] * b[2] <= b[1] * a[2]

\* numpy's round(x, k): scale, round half to even, scale back (scale = 10^k)
RoundHalfEven(a, scale) ==
    LET m == a[1] * scale
        q == m \div a[2]
        r == m % a[2]
    IN  IF 2 * r < a[2] THEN q
        ELSE IF 2 * r > a[2] THEN q + 1
        ELSE IF q % 2 = 0 THEN q ELSE q + 1

-----------------------------------------------------------------------------
(* Series operations *)

RECURSIVE SeqSum(_)
SeqSum(s) == IF s = << >> THEN R(0) ELSE RatAdd(Head(s), SeqSum(Tail(s)))

Column(rows, col) == [i \in 1..Len(rows) |-> rows[i][col]]
DropNA(s) == SelectSeq(s, notna)

\* Series.sum(): missing values are skipped, the empty sum is 0
Sum(rows, col) == SeqSum(DropNA(Column(rows, col)))

\* Series.mean(): missing values are skipped, the empty mean is NaN
Mean(rows, col) ==
    LET vals == DropNA(Column(rows, col))
    IN  IF vals = << >> THEN NaN ELSE RatDivInt(SeqSum(vals), Len(vals))

-----------------------------------------------------------------------------
(* The tables of the data providers *)

\* one row of nfl.import_pbp_data: the columns the application reads
Play(pn, pid, un, uid, rn, rid, tm, wk, epa, suc, cpoe, air, yac, cmp, ptd, rtd, int, sck, yds, fd) ==
    [passer_player_name |-> pn, passer_player_id |-> pid,
     rusher_player_name |-> un, rusher_player_id |-> uid,
     receiver_player_name |-> rn, receiver_player_id |-> rid,
     posteam |-> tm, week |-> wk, epa |-> epa, success |-> suc,
     cpoe |-> cpoe, air_yards |-> air, yards_after_catch |-> yac,
     complete_pass |-> cmp, pass_touchdown |-> ptd, rush_touchdown |-> rtd,
     interception |-> int, sack |-> sck, yards_gained |-> yds,
     first_down |-> fd]

\* one row of nfl.import_seasonal_rosters
Roster(id, first, last, football, tm, pos, shot) ==
    [player_id |-> id, first_name |-> first, last_name |-> last,
     football_name |-> football, team |-> tm, position |-> pos,
     headshot_url |-> shot]

KC == <<"KC">>
SF == <<"SF">>

Mahomes == <<"P.Mahomes">>
Purdy == <<"B.Purdy">>
Pacheco == <<"I.Pacheco">>
McCaffrey == <<"C.McCaffrey">>
Rice == <<"R.Rice">>
Kelce == <<"T.Kelce">>
\* a name that holds the character the selection key is joined with
Piped == <<"D", "|", "J">>

IdMahomes == <<"00-01">>
IdPurdy == <<"00-02">>
IdPacheco == <<"00-03">>
IdMcCaffrey == <<"00-04">>
IdRice == <<"00-05">>
IdKelce == <<"00-06">>
IdPiped == <<"00-07">>
\* another player who shares I.Pacheco's abbreviated name, on another team
IdPachecoSF == <<"00-08">>

\* completed pass, KC, week 2: EPA 0.125, half way between two hundredths
PassComplete ==
    Play(Mahomes, IdMahomes, NaN, NaN, Rice, IdRice, KC, 2,
         Frac(1, 8), R(1), Frac(52, 10), R(8), R(4), R(1), R(0),
         R(0), R(0), R(0), R(12), R(1))
\* incomplete pass, KC, week 2: no yards after catch
PassIncomplete ==
    Play(Mahomes, IdMahomes, NaN, NaN, Kelce, IdKelce, KC, 2,
         Frac(-1, 2), R(0), Frac(-301, 10), R(15), NaN, R(0), R(0),
         R(0), R(0), R(0), R(0), R(0))
\* sack, KC, week 1: no receiver, no air yards, no CPOE
Sack ==
    Play(Mahomes, IdMahomes, NaN, NaN, NaN, NaN, KC, 1,
         Frac(-3, 2), R(0), NaN, NaN, NaN, R(0), R(0),
         R(0), R(0), R(1), R(-7), R(0))
\* touchdown pass to a running back, SF, week 1
PassTouchdown ==
    Play(Purdy, IdPurdy, NaN, NaN, McCaffrey, IdMcCaffrey, SF, 1,
         Frac(3, 8), R(1), Frac(52, 10), R(2), R(9), R(1), R(1),
         R(0), R(0), R(0), R(11), R(1))
\* intercepted pass to a running back, KC, week 2
PassIntercepted ==
    Play(Mahomes, IdMahomes, NaN, NaN, Pacheco, IdPacheco, KC, 2,
         Frac(-4, 1), R(0), Frac(-45, 1), R(20), NaN, R(0), R(0),
         R(0), R(1), R(0), R(0), R(0))
\* rush, KC, week 1
Rush ==
    Play(NaN, NaN, Pacheco, IdPacheco, NaN, NaN, KC, 1,
         Frac(1, 8), R(1), NaN, NaN, NaN, R(0), R(0),
         R(0), R(0), R(0), R(5), R(1))
\* rushing touchdown, SF, week 2
RushTouchdown ==
    Play(NaN, NaN, McCaffrey, IdMcCaffrey, NaN, NaN, SF, 2,
         Frac(21, 10), R(1), NaN, NaN, NaN, R(0), R(0),
         R(1), R(0), R(0), R(3), R(1))
\* rush by the other I.Pacheco, SF, week 1, for a loss
RushNamesake ==
    Play(NaN, NaN, Pacheco, IdPachecoSF, NaN, NaN, SF, 1,
         Frac(-3, 8), R(0), NaN, NaN, NaN, R(0), R(0),
         R(0), R(0), R(0), R(-2), R(0))
\* a pass after which the receiver laterals: both a rusher and a receiver
Lateral ==
    Play(Purdy, IdPurdy, McCaffrey, IdMcCaffrey, Kelce, IdKelce, SF, 2,
         Frac(1, 4), R(1), Frac(10, 1), R(6), R(3), R(1), R(0),
         R(0), R(0), R(0), R(9), R(0))
\* a play whose success flag is not 0 or 1 (an ill-formed table)
IllFormed ==
    Play(Purdy, IdPurdy, NaN, NaN, Rice, IdRice, SF, 1,
         Frac(1, 4), R(2), R(0), R(1), R(1), R(2), R(0),
         R(0), R(0), R(0), R(1), R(0))
\* a pass with no possession team recorded
NoTeam ==
    Play(Purdy, IdPurdy, NaN, NaN, Rice, IdRice, NaN, 1,
         Frac(1, 4), R(1), R(0), R(1), R(1), R(1), R(0),
         R(0), R(0), R(0), R(1), R(0))
\* a pass by a player without a player id, to a player whose name holds "|"
PipedTarget ==
    Play(Piped, NaN, NaN, NaN, Piped, IdPiped, KC, 2,
         Frac(1, 2), R(1), NaN, R(3), R(2), R(1), R(0),
         R(0), R(0), R(0), R(5), R(1))

PlayValues ==
    {PassComplete, PassIncomplete, Sack, PassTouchdown, PassIntercepted,
     Rush, RushTouchdown, RushNamesake, Lateral, IllFormed, NoTeam,
     PipedTarget}

RECURSIVE SeqsUpTo(_, _)
SeqsUpTo(S, n) ==
    IF n = 0 THEN {<< >>}
    ELSE LET shorter == SeqsUpTo(S, n - 1)
         IN  shorter \cup {Append(s, x) : s \in shorter, x \in S}

\* the play-by-play tables a function is applied to
PbpTables == SeqsUpTo(PlayValues, MaxPlays)

Shot(t) == <<"https://static.nfl.com/", t>>

\* a roster with every name field filled in
RosterFull ==
    << Roster(IdMahomes, <<"Patrick">>, <<"Mahomes">>, <<"Pat">>, KC, "QB",
              Shot("01")),
       Roster(IdPurdy, <<"Brock">>, <<"Purdy">>, <<"Brock">>, SF, "QB",
              Shot("02")),
       Roster(IdPacheco, <<"Isiah">>, <<"Pacheco">>, <<"Isiah">>, KC, "RB",
              Shot("03")),
       Roster(IdMcCaffrey, <<"Christian">>, <<"McCaffrey">>, <<"CMC">>, SF,
              "RB", Shot("04")),
       Roster(IdRice, <<"Rashee">>, <<"Rice">>, <<"Rashee">>, KC, "WR",
              Shot("05")),
       Roster(IdKelce, <<"Travis">>, <<"Kelce">>, <<"Travis">>, KC, "TE",
              Shot("06")),
       Roster(IdPiped, <<"D">>, <<"J">>, <<"DJ">>, KC, "WR", NaN),
       Roster(IdPachecoSF, <<"Ian">>, <<"Pacheco">>, <<"Ian">>, SF, "RB",
              <<"">>) >>

\* a roster with gaps: blank and missing name fields, a missing player, a
\* player listed twice, a row without a player id
RosterGaps ==
    << Roster(IdMahomes, <<"Patrick">>, <<"Mahomes">>, <<" ">>, KC, "QB",
              Shot("01")),
       Roster(IdPurdy, NaN, <<"Purdy">>, NaN, SF, "QB", NaN),
       Roster(IdPacheco, <<"Isiah">>, NaN, <<"Isiah">>, KC, "RB", <<"">>),
       Roster(NaN, <<"Christian">>, <<"McCaffrey">>, <<"CMC">>, SF, "RB",
              Shot("04")),
       Roster(IdKelce, <<"Travis">>, <<"Kelce">>, <<"">>, KC, "TE",
              Shot("06")),
       Roster(IdKelce, <<"Jason">>, <<"Kelce">>, <<"Jason">>, KC, "TE",
              Shot("09")),
       Roster(IdPiped, NaN, <<"J">>, <<"DJ">>, KC, "WR", NaN) >>

BUF == <<"BUF">>
PHI == <<"PHI">>
\* a team code that TEAM_COLORS does not know
BLT == <<"BLT">>

\* a pass whose receiver the provider did not record; flag is its success
\* and its completion
SlatePass(name, id, team, wk, epa, cpoe, flag) ==
    Play(name, id, NaN, NaN, NaN, NaN, team, wk,
         epa, R(flag), cpoe, R(8), IF flag = 1 THEN R(4) ELSE NaN, R(flag),
         R(0), R(0), R(0), R(0), R(12 * flag), R(flag))

\* a season with six quarterbacks, more than the multiselect accepts, three
\* in each week, no two of them level in a key metric
SlateSeason ==
    << SlatePass(Mahomes, IdMahomes, KC, 1, Frac(1, 4), R(5), 1),
       SlatePass(Purdy, IdPurdy, SF, 1, Frac(-1, 2), R(-30), 0),
       SlatePass(<<"J.Allen">>, <<"00-11">>, BUF, 1, Frac(1, 8), R(1), 1),
       SlatePass(<<"J.Allen">>, <<"00-11">>, BUF, 1, Frac(1, 8), R(1), 0),
       SlatePass(<<"J.Hurts">>, <<"00-12">>, PHI, 2, Frac(3, 8), R(2), 1),
       SlatePass(<<"J.Hurts">>, <<"00-12">>, PHI, 2, Frac(3, 8), R(2), 0),
       SlatePass(<<"J.Hurts">>, <<"00-12">>, PHI, 2, Frac(3, 8), R(2), 0),
       SlatePass(<<"J.Burrow">>, <<"00-13">>, <<"CIN">>, 2, Frac(-1, 8), R(3), 1),
       SlatePass(<<"J.Burrow">>, <<"00-13">>, <<"CIN">>, 2, Frac(-1, 8), R(3), 1),
       SlatePass(<<"J.Burrow">>, <<"00-13">>, <<"CIN">>, 2, Frac(-1, 8), R(3), 0),
       SlatePass(<<"L.Jackson">>, <<"00-14">>, BLT, 2, Frac(1, 16), R(4), 1),
       SlatePass(<<"L.Jackson">>, <<"00-14">>, BLT, 2, Frac(1, 16), R(4), 0),
       SlatePass(<<"L.Jackson">>, <<"00-14">>, BLT, 2, Frac(1, 16), R(4), 0),
       SlatePass(<<"L.Jackson">>, <<"00-14">>, BLT, 2, Frac(1, 16), R(4), 0) >>

\* a season of two quarterbacks, two running backs and a receiver; in
\* week 1 P.Mahomes has a sack and no pass
RegularSeason ==
    << Sack, PassTouchdown, Rush, PassComplete, RushTouchdown >>

\* a season with gaps: a play without a team, a name that holds "|", a
\* passer without an id, a lateral
OddSeason ==
    << PassComplete, NoTeam, PipedTarget, Lateral >>

SlateRoster ==
    << Roster(<<"00-11">>, <<"Joshua">>, <<"Allen">>, <<"Josh">>, BUF, "QB",
              Shot("11")),
       Roster(<<"00-12">>, <<"Jalen">>, <<"Hurts">>, <<"Jalen">>, PHI, "QB",
              Shot("12")),
       Roster(<<"00-13">>, <<"Joseph">>, <<"Burrow">>, <<"Joe">>, <<"CIN">>, "QB",
              Shot("13")),
       Roster(<<"00-14">>, <<"Lamar">>, <<"Jackson">>, <<"Lamar">>, BLT, "QB",
              Shot("14")) >>

RosterTables == {RosterFull \o SlateRoster, RosterGaps}

Names == {Mahomes, Purdy, Pacheco, McCaffrey, Rice, Kelce, Piped}
Teams == {KC, SF}
Positions == {"QB", "RB", "WR", "TE"}

-----------------------------------------------------------------------------
(* Stat calculation functions *)

PasserPlays(pbp, player_name, team) ==
    SelectSeq(pbp, LAMBDA p : Eq(p.passer_player_name, player_name)
                              /\ Eq(p.posteam, team))
RusherPlays(pbp, player_name, team) ==
    SelectSeq(pbp, LAMBDA p : Eq(p.rusher_player_name, player_name)
                              /\ Eq(p.posteam, team))
ReceiverPlays(pbp, player_name, team) ==
    SelectSeq(pbp, LAMBDA p : Eq(p.receiver_player_name, player_name)
                              /\ Eq(p.posteam, team))
Completions(plays) ==
    SelectSeq(plays, LAMBDA p : Eq(p.complete_pass, R(1)))

\* faulty variant: the sum is not divided by the play count
Rate_undivided(plays, col) == RatMulInt(Sum(plays, col), 100)

\* series.sum() / len(plays) * 100
Rate(plays, col) == RatMulInt(RatDivInt(Sum(plays, col), Len(plays)), 100)

\* faulty variant: without plays, a record of zeros and
\* missing values is returned where None should be
calculate_qb_stats_zero_record(pbp, player_name, team) ==
    LET qb_plays == PasserPlays(pbp, player_name, team)
    IN  ("Player" :> player_name)
          @@ ("Plays" :> R(Len(qb_plays)))
          @@ ("EPA/Play" :> Mean(qb_plays, "epa"))
          @@ ("Success Rate" :>
                IF Len(qb_plays) = 0 THEN NaN ELSE Rate(qb_plays, "success"))
          @@ ("CPOE" :> Mean(qb_plays, "cpoe"))
          @@ ("Air Yards/Att" :> Mean(qb_plays, "air_yards"))
          @@ ("YAC/Comp" :> Mean(Completions(qb_plays), "yards_after_catch"))
          @@ ("Pass TDs" :> Sum(qb_plays, "pass_touchdown"))
          @@ ("INTs" :> Sum(qb_plays, "interception"))
          @@ ("Sacks" :> Sum(qb_plays, "sack"))
          @@ ("Comp %" :>
                IF Len(qb_plays) = 0 THEN NaN
                ELSE Rate(qb_plays, "complete_pass"))

calculate_qb_stats(pbp, player_name, team) ==
    LET qb_plays == PasserPlays(pbp, player_name, team)
    IN  IF Len(qb_plays) = 0 THEN None
        ELSE ("Player" :> player_name)
          @@ ("Plays" :> R(Len(qb_plays)))
          @@ ("EPA/Play" :> Mean(qb_plays, "epa"))
          @@ ("Success Rate" :> Rate(qb_plays, "success"))
          @@ ("CPOE" :> Mean(qb_plays, "cpoe"))
          @@ ("Air Yards/Att" :> Mean(qb_plays, "air_yards"))
          @@ ("YAC/Comp" :> Mean(Completions(qb_plays), "yards_after_catch"))
          @@ ("Pass TDs" :> Sum(qb_plays, "pass_touchdown"))
          @@ ("INTs" :> Sum(qb_plays, "interception"))
          @@ ("Sacks" :> Sum(qb_plays, "sack"))
          @@ ("Comp %" :> Rate(qb_plays, "complete_pass"))

\* faulty variant: 'Rec TDs' counts every touchdown of the
\* player, the rushing ones too
calculate_rb_stats_all_tds(pbp, player_name, team) ==
    LET rush_plays == RusherPlays(pbp, player_name, team)
        rec_plays == ReceiverPlays(pbp, player_name, team)
    IN  IF Len(rush_plays) = 0 /\ Len(rec_plays) = 0 THEN None
        ELSE ("Player" :> player_name)
          @@ ("Rush Attempts" :> R(Len(rush_plays)))
          @@ ("Rush EPA/Play" :>
                IF Len(rush_plays) > 0 THEN Mean(rush_plays, "epa") ELSE R(0))
          @@ ("Rush Success Rate" :>
                IF Len(rush_plays) > 0 THEN Rate(rush_plays, "success")
                ELSE R(0))
          @@ ("Rush Yards" :> Sum(rush_plays, "yards_gained"))
          @@ ("Rush TDs" :> Sum(rush_plays, "rush_touchdown"))
          @@ ("Targets" :> R(Len(rec_plays)))
          @@ ("Rec EPA/Target" :>
                IF Len(rec_plays) > 0 THEN Mean(rec_plays, "epa") ELSE R(0))
          @@ ("Receptions" :> Sum(rec_plays, "complete_pass"))
          @@ ("Rec Yards" :> Sum(rec_plays, "yards_gained"))
          @@ ("Rec TDs" :> RatAdd(Sum(rec_plays, "pass_touchdown"),
                                  Sum(rush_plays, "rush_touchdown")))

calculate_rb_stats(pbp, player_name, team) ==
    LET rush_plays == RusherPlays(pbp, player_name, team)
        rec_plays == ReceiverPlays(pbp, player_name, team)
    IN  IF Len(rush_plays) = 0 /\ Len(rec_plays) = 0 THEN None
        ELSE ("Player" :> player_name)
          @@ ("Rush Attempts" :> R(Len(rush_plays)))
          @@ ("Rush EPA/Play" :>
                IF Len(rush_plays) > 0 THEN Mean(rush_plays, "epa") ELSE R(0))
          @@ ("Rush Success Rate" :>
                IF Len(rush_plays) > 0 THEN Rate(rush_plays, "success")
                ELSE R(0))
          @@ ("Rush Yards" :> Sum(rush_plays, "yards_gained"))
          @@ ("Rush TDs" :> Sum(rush_plays, "rush_touchdown"))
          @@ ("Targets" :> R(Len(rec_plays)))
          @@ ("Rec EPA/Target" :>
                IF Len(rec_plays) > 0 THEN Mean(rec_plays, "epa") ELSE R(0))
          @@ ("Receptions" :> Sum(rec_plays, "complete_pass"))
          @@ ("Rec Yards" :> Sum(rec_plays, "yards_gained"))
          @@ ("Rec TDs" :> Sum(rec_plays, "pass_touchdown"))

calculate_wr_te_stats(pbp, player_name, team) ==
    LET rec_plays == ReceiverPlays(pbp, player_name, team)
    IN  IF Len(rec_plays) = 0 THEN None
        ELSE ("Player" :> player_name)
          @@ ("Targets" :> R(Len(rec_plays)))
          @@ ("EPA/Target" :> Mean(rec_plays, "epa"))
          @@ ("Success Rate" :> Rate(rec_plays, "success"))
          @@ ("Receptions" :> Sum(rec_plays, "complete_pass"))
          @@ ("Catch %" :> Rate(rec_plays, "complete_pass"))
          @@ ("Yards" :> Sum(rec_plays, "yards_gained"))
          @@ ("Yards/Target" :> Mean(rec_plays, "yards_gained"))
          @@ ("TDs" :> Sum(rec_plays, "pass_touchdown"))
          @@ ("First Downs" :> Sum(rec_plays, "first_down"))
          @@ ("Air Yards" :> Sum(rec_plays, "air_yards"))
          @@ ("YAC" :> Sum(rec_plays, "yards_after_catch"))

\* the aggregator main() picks for a position
calculate_stats(pos, pbp, player_name, team) ==
    IF pos = "QB" THEN calculate_qb_stats(pbp, player_name, team)
    ELSE IF pos = "RB" THEN calculate_rb_stats(pbp, player_name, team)
    ELSE calculate_wr_te_stats(pbp, player_name, team)

-----------------------------------------------------------------------------
(* Identity resolution *)

\* a local variable that no assignment has bound yet
Unbound == <<"<unbound>">>
\* the outcome of a block of code that raised an exception
Raised == <<"<exception>">>

\* str() of a value inside an f-string
Str(x) == IF isna(x) THEN <<"nan">> ELSE x

\* "player_plays = pbp[...]; if len(player_plays) > 0: player_id = ...":
\* the value of player_id afterwards, given its value before
lookup_player_id(pbp, abbreviated_name, team, pos, player_id) ==
    IF pos = "QB" THEN
        LET player_plays == PasserPlays(pbp, abbreviated_name, team)
        IN  IF Len(player_plays) > 0 THEN player_plays[1].passer_player_id
            ELSE player_id
    ELSE IF pos = "RB" THEN
        LET player_plays ==
                SelectSeq(pbp, LAMBDA p :
                    (Eq(p.rusher_player_name, abbreviated_name)
                     \/ Eq(p.receiver_player_name, abbreviated_name))
                    /\ Eq(p.posteam, team))
        IN  IF Len(player_plays) > 0 THEN
                IF isna(player_plays[1].rusher_player_id)
                THEN player_plays[1].receiver_player_id
                ELSE player_plays[1].rusher_player_id
            ELSE player_id
    ELSE
        LET player_plays == ReceiverPlays(pbp, abbreviated_name, team)
        IN  IF Len(player_plays) > 0 THEN player_plays[1].receiver_player_id
            ELSE player_id

RosterRows(rosters, player_id) ==
    SelectSeq(rosters, LAMBDA r : Eq(r.player_id, player_id))


\* str.strip(): the text without its leading and trailing white space
RECURSIVE LStrip(_)
LStrip(s) ==
    IF s # << >> /\ Head(s) \in {"", " "} THEN LStrip(Tail(s)) ELSE s
RECURSIVE RStrip(_)
RStrip(s) ==
    IF s # << >> /\ s[Len(s)] \in {"", " "}
    THEN RStrip(SubSeq(s, 1, Len(s) - 1))
    ELSE s
Strip(s) == RStrip(LStrip(s))
\* the truth value of a string: false when it has no characters
Truthy(s) == \E i \in 1..Len(s) : s[i] # ""

FormatFull(last_name, first_name, team) ==
    Str(last_name) \o <<", ">> \o Str(first_name) \o <<" (">> \o Str(team)
    \o <<")">>
FormatFallback(abbreviated_name, team) ==
    Str(abbreviated_name) \o <<" (">> \o Str(team) \o <<")">>

\* "if pd.notna(last_name) and pd.notna(first_name): return ..."
name_of(last_name, first_name, team) ==
    IF notna(last_name) /\ notna(first_name)
    THEN FormatFull(last_name, first_name, team)
    ELSE None

\* the roster row's football_name if it is not blank, else its first_name
preferred_first_name(row) ==
    IF notna(row.football_name) /\ Truthy(Strip(row.football_name))
    THEN row.football_name
    ELSE row.first_name

name_of_rows(player_row, team) ==
    IF player_row = << >> THEN None
    ELSE name_of(player_row[1].last_name,
                 preferred_first_name(player_row[1]), team)

name_of_id(player_id, rosters, team) ==
    IF player_id = Unbound THEN Raised
    ELSE IF isna(player_id) THEN None
    ELSE name_of_rows(RosterRows(rosters, player_id), team)

\* the try block of get_player_display_name: the value it returns, Raised
\* when it raises, None when it runs to its end without returning
display_name_try(abbreviated_name, team, pbp, rosters, pos) ==
    name_of_id(lookup_player_id(pbp, abbreviated_name, team, pos, Unbound),
               rosters, team)

\* faulty variant: the exception is not caught
except_reraise(tried, abbreviated_name, team) ==
    IF tried = None THEN FormatFallback(abbreviated_name, team) ELSE tried

\* "except: pass", then the fallback return: the function's result, given
\* what its try block did
except_pass(tried, abbreviated_name, team) ==
    IF tried = Raised \/ tried = None
    THEN FormatFallback(abbreviated_name, team)
    ELSE tried

get_player_display_name(abbreviated_name, team, pbp, rosters, pos) ==
    except_pass(display_name_try(abbreviated_name, team, pbp, rosters, pos),
                abbreviated_name, team)

-----------------------------------------------------------------------------
(* Chart creation *)

TEAM_COLORS ==
    ("ARI" :> "#97233F") @@ ("ATL" :> "#A71930") @@ ("BAL" :> "#241773") @@
    ("BUF" :> "#00338D") @@ ("CAR" :> "#0085CA") @@ ("CHI" :> "#C83803") @@
    ("CIN" :> "#FB4F14") @@ ("CLE" :> "#311D00") @@ ("DAL" :> "#041E42") @@
    ("DEN" :> "#FB4F14") @@ ("DET" :> "#0076B6") @@ ("GB" :> "#203731") @@
    ("HOU" :> "#03202F") @@ ("IND" :> "#002C5F") @@ ("JAX" :> "#006778") @@
    ("KC" :> "#E31837") @@ ("LAC" :> "#0080C6") @@ ("LAR" :> "#003594") @@
    ("LV" :> "#000000") @@ ("MIA" :> "#008E97") @@ ("MIN" :> "#4F2683") @@
    ("NE" :> "#002244") @@ ("NO" :> "#D3BC8D") @@ ("NYG" :> "#0B2265") @@
    ("NYJ" :> "#125740") @@ ("PHI" :> "#004C54") @@ ("PIT" :> "#FFB612") @@
    ("SEA" :> "#002244") @@ ("SF" :> "#AA0000") @@ ("TB" :> "#D50A0A") @@
    ("TEN" :> "#0C2340") @@ ("WAS" :> "#5A1414")

REFERENCE_LINES ==
    ("QB" :> (("EPA/Play" :> Frac(10, 100)) @@ ("Success Rate" :> R(43))
              @@ ("Comp %" :> R(64)))) @@
    ("RB" :> (("Rush EPA/Play" :> Frac(2, 100))
              @@ ("Rush Success Rate" :> R(42))
              @@ ("Rec EPA/Target" :> Frac(15, 100)))) @@
    ("WR" :> (("EPA/Target" :> Frac(18, 100)) @@ ("Success Rate" :> R(48))
              @@ ("Catch %" :> R(63)) @@ ("Yards/Target" :> R(8)))) @@
    ("TE" :> (("EPA/Target" :> Frac(15, 100)) @@ ("Success Rate" :> R(48))
              @@ ("Catch %" :> R(63)) @@ ("Yards/Target" :> Frac(75, 10))))

\* dict.get(key, default) on a dict whose keys are one-token texts
DictGet(dict, key, default) ==
    IF Len(key) = 1 /\ key[1] \in DOMAIN dict THEN dict[key[1]] ELSE default

\* the rows of the table whose metric is not missing / is missing
ValueRows(stats_df, metric) ==
    {i \in 1..Len(stats_df) : notna(stats_df[i][metric])}
MissingRows(stats_df, metric) ==
    SelectSeq([i \in 1..Len(stats_df) |-> i],
              LAMBDA i : isna(stats_df[i][metric]))

\* the rows of idx that no other row of idx is smaller than
Smallest(stats_df, metric, idx) ==
    {i \in idx : \A j \in idx : RatLE(stats_df[i][metric], stats_df[j][metric])}

\* numpy's argsort(kind='quicksort') of the rows idx: ascending, and rows of
\* equal value in whatever order the build's quicksort leaves them
RECURSIVE ArgSorts(_, _, _)
ArgSorts(stats_df, metric, idx) ==
    IF idx = {} THEN {<< >>}
    ELSE UNION {{<<i>> \o rest :
                    rest \in ArgSorts(stats_df, metric, idx \ {i})} :
                i \in Smallest(stats_df, metric, idx)}

\* stats_df.sort_values(by=metric, ascending=True): the row orders it can
\* give; rows with a missing metric come last, in their original order
sort_values(stats_df, metric) ==
    {order \o MissingRows(stats_df, metric) :
        order \in ArgSorts(stats_df, metric, ValueRows(stats_df, metric))}

\* f"{val:.2f}"
Format2f(val) ==
    IF isna(val) THEN <<"nan">> ELSE Frac(RoundHalfEven(val, 100), 100)


\* faulty variant: the reference line of another position
reference_line_shifted(pos, metric) ==
    IF metric # "CPOE" /\ pos \in DOMAIN REFERENCE_LINES
       /\ metric \in DOMAIN REFERENCE_LINES["WR"]
    THEN REFERENCE_LINES["WR"][metric]
    ELSE NaN

\* the x of the "League Avg" line added to the figure, NaN when none is added
reference_line(pos, metric) ==
    IF metric # "CPOE" /\ pos \in DOMAIN REFERENCE_LINES
       /\ metric \in DOMAIN REFERENCE_LINES[pos]
    THEN REFERENCE_LINES[pos][metric]
    ELSE NaN

\* the figure built from one sorted order of the rows
Figure(stats_df, order, metric, metric_title, player_teams, pos) ==
    [y |-> [k \in 1..Len(order) |-> stats_df[order[k]]["Player"]],
     x |-> [k \in 1..Len(order) |-> stats_df[order[k]][metric]],
     rows |-> order,
     colors |-> [k \in 1..Len(order) |->
                    LET player == stats_df[order[k]]["Player"]
                    IN  DictGet(TEAM_COLORS,
                                IF player \in DOMAIN player_teams
                                THEN player_teams[player] ELSE <<"NFL">>,
                                "#808080")],
     text |-> [k \in 1..Len(order) |-> Format2f(stats_df[order[k]][metric])],
     vline |-> reference_line(pos, metric),
     height |-> IF Len(order) * 75 < 300 THEN 300
                ELSE IF Len(order) * 75 > 450 THEN 450
                ELSE Len(order) * 75,
     title |-> metric_title,
     metric |-> metric]

\* the figures a call of create_comparison_chart can return
create_comparison_chart(stats_df, metric, metric_title, player_teams, pos) ==
    {Figure(stats_df, order, metric, metric_title, player_teams, pos) :
        order \in sort_values(stats_df, metric)}

-----------------------------------------------------------------------------
(* The statistics table as displayed *)

\* the characters of every column name of the three aggregators
ColumnChars ==
    ("Player" :>
        <<"P", "l", "a", "y", "e", "r">>) @@
    ("Plays" :>
        <<"P", "l", "a", "y", "s">>) @@
    ("EPA/Play" :>
        <<"E", "P", "A", "/", "P", "l", "a", "y">>) @@
    ("Success Rate" :>
        <<"S", "u", "c", "c", "e", "s", "s", " ", "R", "a", "t", "e">>) @@
    ("CPOE" :>
        <<"C", "P", "O", "E">>) @@
    ("Air Yards/Att" :>
        <<"A", "i", "r", " ", "Y", "a", "r", "d", "s", "/", "A", "t", "t">>) @@
    ("YAC/Comp" :>
        <<"Y", "A", "C", "/", "C", "o", "m", "p">>) @@
    ("Pass TDs" :>
        <<"P", "a", "s", "s", " ", "T", "D", "s">>) @@
    ("INTs" :>
        <<"I", "N", "T", "s">>) @@
    ("Sacks" :>
        <<"S", "a", "c", "k", "s">>) @@
    ("Comp %" :>
        <<"C", "o", "m", "p", " ", "%">>) @@
    ("Rush Attempts" :>
        <<"R", "u", "s", "h", " ", "A", "t", "t", "e", "m", "p", "t", "s">>) @@
    ("Rush EPA/Play" :>
        <<"R", "u", "s", "h", " ", "E", "P", "A", "/", "P", "l", "a", "y">>) @@
    ("Rush Success Rate" :>
        <<"R", "u", "s", "h", " ", "S", "u", "c", "c", "e", "s", "s", " ", "R", "a", "t", "e">>) @@
    ("Rush Yards" :>
        <<"R", "u", "s", "h", " ", "Y", "a", "r", "d", "s">>) @@
    ("Rush TDs" :>
        <<"R", "u", "s", "h", " ", "T", "D", "s">>) @@
    ("Targets" :>
        <<"T", "a", "r", "g", "e", "t", "s">>) @@
    ("Rec EPA/Target" :>
        <<"R", "e", "c", " ", "E", "P", "A", "/", "T", "a", "r", "g", "e", "t">>) @@
    ("Receptions" :>
        <<"R", "e", "c", "e", "p", "t", "i", "o", "n", "s">>) @@
    ("Rec Yards" :>
        <<"R", "e", "c", " ", "Y", "a", "r", "d", "s">>) @@
    ("Rec TDs" :>
        <<"R", "e", "c", " ", "T", "D", "s">>) @@
    ("EPA/Target" :>
        <<"E", "P", "A", "/", "T", "a", "r", "g", "e", "t">>) @@
    ("Catch %" :>
        <<"C", "a", "t", "c", "h", " ", "%">>) @@
    ("Yards" :>
        <<"Y", "a", "r", "d", "s">>) @@
    ("Yards/Target" :>
        <<"Y", "a", "r", "d", "s", "/", "T", "a", "r", "g", "e", "t">>) @@
    ("TDs" :>
        <<"T", "D", "s">>) @@
    ("First Downs" :>
        <<"F", "i", "r", "s", "t", " ", "D", "o", "w", "n", "s">>) @@
    ("Air Yards" :>
        <<"A", "i", "r", " ", "Y", "a", "r", "d", "s">>) @@
    ("YAC" :>
        <<"Y", "A", "C">>)


\* sub in text, for texts given as their characters
Contains(sub, text) ==
    \E k \in 0..(Len(text) - Len(sub)) :
        \A j \in 1..Len(sub) : text[k + j] = sub[j]

\* faulty variant: 'YAC' is not among the two-decimal names
decimals_without_yac(col) ==
    IF Contains(<<"%">>, ColumnChars[col])
       \/ Contains(<<"R", "a", "t", "e">>, ColumnChars[col])
    THEN 2
    ELSE IF \E x \in {<<"E", "P", "A">>, <<"C", "P", "O", "E">>,
                      <<"Y", "a", "r", "d", "s">>} :
                Contains(x, ColumnChars[col])
    THEN 2
    ELSE 0

\* the number of decimals the rounding loop of main() keeps in a column
decimals(col) ==
    IF Contains(<<"%">>, ColumnChars[col])
       \/ Contains(<<"R", "a", "t", "e">>, ColumnChars[col])
    THEN 2
    ELSE IF \E x \in {<<"E", "P", "A">>, <<"C", "P", "O", "E">>,
                      <<"Y", "a", "r", "d", "s">>, <<"Y", "A", "C">>} :
                Contains(x, ColumnChars[col])
    THEN 2
    ELSE 0

\* a cell of display_df: a float rounded to 2 decimals is a fraction, an
\* integer (after .round(0).astype(int)) is a 1-tuple, a missing float is NaN
round_cell(col, val) ==
    IF col = "Player" \/ isna(val) THEN val
    ELSE IF decimals(col) = 2 THEN Frac(RoundHalfEven(val, 100), 100)
    ELSE <<RoundHalfEven(val, 1)>>

\* faulty variant: rounding raises on any missing value
round_raises_any_missing(stats_df) ==
    \E i \in 1..Len(stats_df) : \E col \in DOMAIN stats_df[i] :
        col # "Player" /\ isna(stats_df[i][col])

\* astype(int) raises on a column that holds a missing value
round_raises(stats_df) ==
    \E i \in 1..Len(stats_df) : \E col \in DOMAIN stats_df[i] :
        col # "Player" /\ decimals(col) = 0 /\ isna(stats_df[i][col])

\* display_df after the rounding loop
round_display(stats_df) ==
    [i \in 1..Len(stats_df) |->
        [col \in DOMAIN stats_df[i] |-> round_cell(col, stats_df[i][col])]]

-----------------------------------------------------------------------------
(* Texts: order, joining and splitting *)

\* the tokens of the model's texts, in the order Python compares strings
TokenOrder ==
    <<"", " ", " (", ")", ", ", "Allen", "B.Purdy", "BLT", "BUF", "Brock",
      "Burrow", "C.McCaffrey", "CIN", "CMC", "Christian", "D", "DJ",
      "Hurts", "I.Pacheco", "Ian", "Isiah", "J", "J.Allen", "J.Burrow",
      "J.Hurts", "Jackson", "Jalen", "Jason", "Joe", "Joseph", "Josh",
      "Joshua", "KC", "Kelce", "L.Jackson", "Lamar", "Mahomes",
      "McCaffrey", "P.Mahomes", "PHI", "Pacheco", "Pat", "Patrick",
      "Purdy", "R.Rice", "Rashee", "Rice", "SF", "T.Kelce", "Travis",
      "nan", "|">>

Rank(tok) == CHOOSE i \in 1..Len(TokenOrder) : TokenOrder[i] = tok

RECURSIVE TextLess(_, _)
TextLess(a, b) ==
    IF b = << >> THEN FALSE
    ELSE IF a = << >> THEN TRUE
    ELSE IF Head(a) = Head(b) THEN TextLess(Tail(a), Tail(b))
    ELSE Rank(Head(a)) < Rank(Head(b))

\* sorted(texts)
RECURSIVE sorted(_)
sorted(texts) ==
    IF texts = {} THEN << >>
    ELSE LET first == CHOOSE t \in texts :
                          \A u \in texts \ {t} : TextLess(t, u)
         IN  <<first>> \o sorted(texts \ {first})

\* f"{player_abbrev}|{team}"
JoinKey(player_abbrev, team) == Str(player_abbrev) \o <<"|">> \o Str(team)

\* key.split('|')
RECURSIVE Split(_)
Split(key) ==
    IF \E i \in 1..Len(key) : key[i] = "|" THEN
        LET i == CHOOSE k \in 1..Len(key) :
                     key[k] = "|" /\ \A j \in 1..(k - 1) : key[j] # "|"
        IN  <<SubSeq(key, 1, i - 1)>> \o Split(SubSeq(key, i + 1, Len(key)))
    ELSE <<key>>

\* a dict as the sequence of its <<key, value>> items, in insertion order
DictPut(dict, k, v) ==
    IF \E i \in 1..Len(dict) : dict[i][1] = k
    THEN [i \in 1..Len(dict) |-> IF dict[i][1] = k THEN <<k, v>> ELSE dict[i]]
    ELSE Append(dict, <<k, v>>)
DictKeys(dict) == {dict[i][1] : i \in 1..Len(dict)}
DictAt(dict, k) == dict[CHOOSE i \in 1..Len(dict) : dict[i][1] = k][2]

-----------------------------------------------------------------------------
(* Data loading *)

\* an entry of st.cache_data: whether the call is cached, and what it returned
Absent == [cached |-> FALSE, value |-> None]
Cached(value) == [cached |-> TRUE, value |-> value]

\* the body of load_pbp_data / load_roster_data: the provider's table, or
\* None (after st.error) when the provider raises
fetch(table, provider_ok) == IF provider_ok THEN <<table>> ELSE None

\* a call of a function under @st.cache_data(ttl=86400): a cached return value
\* is returned again, otherwise the body runs and its return value is cached
load_pbp_data(entry, table, provider_ok) ==
    IF entry.cached THEN entry.value ELSE fetch(table, provider_ok)
load_roster_data(entry, table, provider_ok) ==
    IF entry.cached THEN entry.value ELSE fetch(table, provider_ok)

-----------------------------------------------------------------------------
(* main(): one run of the script *)

\* the "All" entry of the week selector
All == 0

\* faulty variant: the range excludes its last week
week_filter_exclusive(pbp, weeks, range, through) ==
    IF weeks # All THEN
        IF range /\ through # 0
        THEN SelectSeq(pbp, LAMBDA p : weeks <= p.week /\ p.week < through)
        ELSE SelectSeq(pbp, LAMBDA p : p.week = weeks)
    ELSE pbp

\* "Filter by weeks if selected"
week_filter(pbp, weeks, range, through) ==
    IF weeks # All THEN
        IF range /\ through # 0
        THEN SelectSeq(pbp, LAMBDA p : weeks <= p.week /\ p.week <= through)
        ELSE SelectSeq(pbp, LAMBDA p : p.week = weeks)
    ELSE pbp

\* DataFrame.drop_duplicates(): the first of equal rows is kept
RECURSIVE drop_duplicates(_)
drop_duplicates(rows) ==
    IF rows = << >> THEN << >>
    ELSE LET before == drop_duplicates(SubSeq(rows, 1, Len(rows) - 1))
             last == rows[Len(rows)]
         IN  IF \E i \in 1..Len(before) : before[i] = last THEN before
             ELSE Append(before, last)

\* pbp[pbp[col].notna()][[col, 'posteam']].drop_duplicates() as tuples
NameTeamPairs(pbp, col) ==
    LET named == SelectSeq(pbp, LAMBDA p : notna(p[col]))
    IN  drop_duplicates([i \in 1..Len(named) |->
                            <<named[i][col], named[i].posteam>>])

Range(s) == {s[i] : i \in 1..Len(s)}

RECURSIVE Orders(_)
Orders(S) ==
    IF S = {} THEN {<< >>}
    ELSE UNION {{<<x>> \o rest : rest \in Orders(S \ {x})} : x \in S}

\* player_team_pairs: for "RB" it is list(set(...)), whose order Python
\* does not fix
player_team_pairs(pbp, pos) ==
    IF pos = "QB" THEN {NameTeamPairs(pbp, "passer_player_name")}
    ELSE IF pos = "RB" THEN
        Orders(Range(NameTeamPairs(pbp, "rusher_player_name"))
               \cup Range(NameTeamPairs(pbp, "receiver_player_name")))
    ELSE {NameTeamPairs(pbp, "receiver_player_name")}

\* set(position_rosters['player_id'].dropna())
valid_player_ids(rosters, pos) ==
    {rosters[i].player_id : i \in {j \in 1..Len(rosters) :
        rosters[j].position = pos /\ notna(rosters[j].player_id)}}

\* one pass of the loop "Filter to only include correct position", from its
\* state acc: player_id is the value of main()'s local variable after the
\* lookup, raised is set when it is read unbound
filter_step(acc, pair, player_id, valid) ==
    IF player_id = Unbound THEN [acc EXCEPT !.raised = TRUE]
    ELSE [filtered |-> IF notna(player_id) /\ player_id \in valid
                       THEN Append(acc.filtered, pair)
                       ELSE acc.filtered,
          player_id |-> player_id,
          examined |-> acc.examined \cup
              {[name |-> pair[1], team |-> pair[2], player_id |-> player_id]},
          raised |-> FALSE]

RECURSIVE position_filter(_, _, _, _, _)
position_filter(pairs, pbp, valid, pos, acc) ==
    IF pairs = << >> \/ acc.raised THEN acc
    ELSE position_filter(Tail(pairs), pbp, valid, pos,
            filter_step(acc, Head(pairs),
                        lookup_player_id(pbp, Head(pairs)[1], Head(pairs)[2],
                                         pos, acc.player_id),
                        valid))

\* name_mapping: key -> display name
RECURSIVE name_mapping(_, _, _, _)
name_mapping(pairs, pbp, rosters, pos) ==
    IF pairs = << >> THEN << >>
    ELSE DictPut(name_mapping(SubSeq(pairs, 1, Len(pairs) - 1), pbp, rosters,
                              pos),
                 JoinKey(pairs[Len(pairs)][1], pairs[Len(pairs)][2]),
                 get_player_display_name(pairs[Len(pairs)][1],
                                         pairs[Len(pairs)][2], pbp, rosters,
                                         pos))

\* {display_name: key for key, display_name in name_mapping.items()}
RECURSIVE dropdown_options(_)
dropdown_options(mapping) ==
    IF mapping = << >> THEN << >>
    ELSE DictPut(dropdown_options(SubSeq(mapping, 1, Len(mapping) - 1)),
                 mapping[Len(mapping)][2], mapping[Len(mapping)][1])

DefaultPhoto == <<"https://a.espncdn.com/", "nfl.png">>

\* the photo main() stores for a player whose id lookup gave player_id
player_photo(rosters, player_id) ==
    IF notna(player_id) THEN
        LET player_row == RosterRows(rosters, player_id)
        IN  IF player_row # << >> THEN
                LET headshot == player_row[1].headshot_url
                IN  IF notna(headshot) /\ headshot # <<"">> THEN headshot
                    ELSE DefaultPhoto
            ELSE DefaultPhoto
    ELSE DefaultPhoto

\* faulty variant: each new row is put before the others
add_row_first(acc, stats, display_name, team, player_id, rosters) ==
    [all_stats |-> <<[stats EXCEPT !["Player"] = display_name]>>
                   \o acc.all_stats,
     player_teams |-> (display_name :> team) @@ acc.player_teams,
     player_photos |-> (display_name :> player_photo(rosters, player_id))
                       @@ acc.player_photos,
     player_id |-> player_id,
     returned |-> Append(acc.returned, stats)]

\* the body of "if stats:": the record gets its display name, the team and
\* the photo are stored, the record is appended to all_stats
add_row(acc, stats, display_name, team, player_id, rosters) ==
    [all_stats |-> Append(acc.all_stats,
                          [stats EXCEPT !["Player"] = display_name]),
     player_teams |-> (display_name :> team) @@ acc.player_teams,
     player_photos |-> (display_name :> player_photo(rosters, player_id))
                       @@ acc.player_photos,
     player_id |-> player_id,
     returned |-> Append(acc.returned, stats)]

\* one pass of the loop "Calculate stats and gather player info"; returned
\* keeps what the aggregator returned for each selected player
stats_step(acc, stats, player_abbrev, team, pbp, rosters, pos) ==
    IF stats # None
    THEN add_row(acc, stats,
                 get_player_display_name(player_abbrev, team, pbp, rosters,
                                         pos),
                 team,
                 lookup_player_id(pbp, player_abbrev, team, pos,
                                  acc.player_id),
                 rosters)
    ELSE [acc EXCEPT !.returned = Append(acc.returned, stats)]

RECURSIVE stats_loop(_, _, _, _, _)
stats_loop(selected_players, pbp, rosters, pos, acc) ==
    IF selected_players = << >> THEN acc
    ELSE stats_loop(Tail(selected_players), pbp, rosters, pos,
            stats_step(acc,
                       calculate_stats(pos, pbp, Head(selected_players)[1],
                                       Head(selected_players)[2]),
                       Head(selected_players)[1], Head(selected_players)[2],
                       pbp, rosters, pos))

\* the tooltip texts
STAT_DEFINITIONS ==
    ("EPA/Play" :>
        "Expected Points Added per play - measures how much value a player adds") @@
    ("Success Rate" :>
        "Percentage of plays with positive EPA") @@
    ("CPOE" :>
        "Completion Percentage Over Expected - accuracy vs difficulty of throws") @@
    ("Air Yards/Att" :>
        "Average depth of target downfield") @@
    ("YAC/Comp" :>
        "Yards After Catch per completion") @@
    ("Pass TDs" :>
        "Passing touchdowns") @@
    ("INTs" :>
        "Interceptions thrown") @@
    ("Sacks" :>
        "Times sacked") @@
    ("Comp %" :>
        "Completion percentage") @@
    ("Rush EPA/Play" :>
        "Expected Points Added per rushing attempt") @@
    ("Rush Success Rate" :>
        "Percentage of rushes with positive EPA") @@
    ("Rec EPA/Target" :>
        "Expected Points Added per target as a receiver") @@
    ("Rush TDs" :>
        "Rushing touchdowns") @@
    ("EPA/Target" :>
        "Expected Points Added per target") @@
    ("Catch %" :>
        "Percentage of targets caught") @@
    ("Yards/Target" :>
        "Average yards per target") @@
    ("Plays" :>
        "Total number of plays") @@
    ("Targets" :>
        "Number of times targeted") @@
    ("Receptions" :>
        "Number of catches") @@
    ("Yards" :>
        "Total yards gained") @@
    ("TDs" :>
        "Touchdowns scored") @@
    ("First Downs" :>
        "First downs gained") @@
    ("Rush Attempts" :>
        "Number of rushing attempts") @@
    ("Rush Yards" :>
        "Rushing yards gained") @@
    ("Rec Yards" :>
        "Receiving yards gained") @@
    ("Rec TDs" :>
        "Receiving touchdowns") @@
    ("Air Yards" :>
        "Total air yards (depth of targets)") @@
    ("YAC" :>
        "Total yards after catch")

\* metric_title: the metric and, after " - ", its tooltip text if it has one
metric_title(metric) ==
    IF metric \in DOMAIN STAT_DEFINITIONS
    THEN <<metric, " - ", STAT_DEFINITIONS[metric]>>
    ELSE <<metric>>

key_metrics(pos) ==
    IF pos = "QB" THEN <<"EPA/Play", "Success Rate", "CPOE", "Comp %">>
    ELSE IF pos = "RB" THEN
        <<"Rush EPA/Play", "Rush Success Rate", "Rec EPA/Target", "Rush TDs">>
    ELSE <<"EPA/Target", "Success Rate", "Catch %", "Yards/Target">>

\* the charts of "Key Metrics Comparison": one per key metric, in order
RECURSIVE charts(_, _, _, _)
charts(metrics, stats_df, player_teams, pos) ==
    IF metrics = << >> THEN {<< >>}
    ELSE IF Head(metrics) \notin DOMAIN stats_df[1]
    THEN charts(Tail(metrics), stats_df, player_teams, pos)
    ELSE {<<fig>> \o rest :
            fig \in create_comparison_chart(stats_df, Head(metrics),
                                            metric_title(Head(metrics)),
                                            player_teams, pos),
            rest \in charts(Tail(metrics), stats_df, player_teams, pos)}

\* the season of the "Select Season" box: the model keeps to one season
season == "2024"

\* what a run of main() leaves on the page, and the values it computed
BlankView ==
    [status |-> "start",        \* where the run ended
     errors |-> {},             \* the st.error messages shown
     replayed |-> {},           \* the loaders that replayed a failure
     pbp |-> << >>,             \* the plays after the week filter
     examined |-> {},           \* position filter: keys and the ids tested
     filtered |-> << >>,        \* filtered_player_team_pairs
     dropdown |-> << >>,        \* dropdown_options: display name -> key
     options |-> << >>,         \* display_names_sorted
     selected |-> << >>,        \* selected_display_names
     selected_players |-> << >>,
     returned |-> << >>,        \* the aggregator's return value per player
     table |-> << >>,           \* stats_df
     photos |-> << >>,          \* player_photos
     display |-> << >>,         \* display_df
     figures |-> << >>,         \* the charts drawn
     csv |-> None]              \* the download button's file

\* main() from "Round all numeric columns" on: the table, the charts and
\* the download button
main_render(v, stats_df, player_teams, pos) ==
    IF round_raises(stats_df) THEN {[v EXCEPT !.status = "exception"]}
    ELSE {[v EXCEPT !.status = "rendered",
                    !.display = round_display(stats_df),
                    !.figures = figs,
                    !.csv = [file_name |-> <<"epa_comparison_", pos, "_",
                                             season, ".csv">>,
                             rows |-> stats_df]] :
            figs \in charts(key_metrics(pos), stats_df, player_teams, pos)}

\* main() after the stats loop, which ended in state done
main_table(v, done, pos) ==
    IF done.all_stats = << >>
    THEN {[v EXCEPT !.status = "no_stats", !.returned = done.returned]}
    ELSE main_render(
            [v EXCEPT !.table = done.all_stats,
                      !.returned = done.returned,
                      !.photos = [i \in 1..Len(done.all_stats) |->
                          done.player_photos[done.all_stats[i]["Player"]]]],
            done.all_stats, done.player_teams, pos)

\* main() after the selected keys are split into keys
main_stats(v, keys, player_id, pbp, rosters, pos) ==
    IF \E i \in 1..Len(keys) : Len(keys[i]) # 2
    THEN {[v EXCEPT !.status = "exception"]}
    ELSE main_table(
            [v EXCEPT !.selected_players = [i \in 1..Len(keys) |->
                                               <<keys[i][1], keys[i][2]>>]],
            stats_loop([i \in 1..Len(keys) |-> <<keys[i][1], keys[i][2]>>],
                       pbp, rosters, pos,
                       [all_stats |-> << >>, player_teams |-> << >>,
                        player_photos |-> << >>, player_id |-> player_id,
                        returned |-> << >>]),
            pos)

\* main() after the multiselect returned chosen
main_chosen(v, dropdown, chosen, player_id, pbp, rosters, pos) ==
    IF Len(chosen) < 2
    THEN {[v EXCEPT !.status = "need_two", !.selected = chosen]}
    ELSE main_stats([v EXCEPT !.selected = chosen],
                    [i \in 1..Len(chosen) |->
                        Split(DictAt(dropdown, chosen[i]))],
                    player_id, pbp, rosters, pos)

\* the multiselect: its stored value, while the options it was stored for
\* are still the ones offered, else nothing
multiselect(options, widget) ==
    IF widget.options = options THEN widget.value ELSE << >>

\* main() when it reaches the multiselect
main_dropdown(v, dropdown, options, player_id, pbp, rosters, pos, widget) ==
    main_chosen([v EXCEPT !.dropdown = dropdown, !.options = options],
                dropdown, multiselect(options, widget), player_id, pbp,
                rosters, pos)

\* main() after dropdown_options is built: the sorted display names
main_names(v, dropdown, player_id, pbp, rosters, pos, widget) ==
    main_dropdown(v, dropdown, sorted(DictKeys(dropdown)), player_id, pbp,
                  rosters, pos, widget)

\* main() after the position filter, which ended in state loop
main_selection(v, loop, pbp, rosters, pos, widget) ==
    IF loop.raised
    THEN {[v EXCEPT !.status = "exception", !.examined = loop.examined]}
    ELSE IF loop.filtered = << >>
    THEN {[v EXCEPT !.status = "no_players", !.examined = loop.examined]}
    ELSE main_names(
            [v EXCEPT !.examined = loop.examined,
                      !.filtered = loop.filtered],
            dropdown_options(name_mapping(loop.filtered, pbp, rosters, pos)),
            loop.player_id, pbp, rosters, pos, widget)

\* main() after the week filter
main_players(v, pbp, rosters, pos, widget) ==
    UNION {main_selection(v,
              position_filter(pairs, pbp, valid_player_ids(rosters, pos), pos,
                  [filtered |-> << >>, player_id |-> Unbound,
                   examined |-> {}, raised |-> FALSE]),
              pbp, rosters, pos, widget) :
           pairs \in player_team_pairs(pbp, pos)}

main_filtered(pbp, rosters, pos, widget) ==
    main_players([BlankView EXCEPT !.pbp = pbp], pbp, rosters, pos, widget)

\* faulty variant: a failed load shows no message of its own
load_errors_silent(pbp_loaded, rosters_loaded) == {}

\* the st.error messages of a run whose loaders returned these values
load_errors(pbp_loaded, rosters_loaded) ==
    (IF pbp_loaded = None THEN {"Error loading play-by-play data"} ELSE {})
    \cup (IF rosters_loaded = None THEN {"Error loading roster data"}
          ELSE {})

\* the views a run of main() can end with, given what the two loaders
\* returned, the sidebar's values and the multiselect's stored value
main(pbp_loaded, rosters_loaded, pos, weeks, range, through, widget) ==
    IF pbp_loaded = None \/ rosters_loaded = None
    THEN {[BlankView EXCEPT
             !.status = "load_failed",
             !.errors = load_errors(pbp_loaded, rosters_loaded)
                        \cup {"Failed to load data"}]}
    ELSE main_filtered(week_filter(pbp_loaded[1], weeks, range, through),
                       rosters_loaded[1], pos, widget)

-----------------------------------------------------------------------------
(* The application: every user interaction reruns main() *)

\* max_selections of the multiselect
MaxSelections == 5

\* the seasons the provider can hold
SeasonTables == {RegularSeason, OddSeason, SlateSeason}

Init ==
    /\ src_pbp \in SeasonTables
    /\ src_rosters \in RosterTables
    /\ cache_pbp = Absent
    /\ cache_rosters = Absent
    /\ position = "QB"
    /\ selected_weeks = All
    /\ use_range = FALSE
    /\ week_end = 0
    /\ selected_display_names = << >>
    /\ view = BlankView
    /\ call = [fn |-> "none"]
    /\ ret = [done |-> FALSE, value |-> << >>]

\* a call under @st.cache_data that returns the cached value of a failed
\* fetch, the entry being younger than its ttl, although the provider would
\* answer now
replays(entry, expired, provider_ok) ==
    ~expired /\ entry.cached /\ entry.value = None /\ provider_ok

\* what the two loaders can return in a run: each entry is still fresh or
\* older than its ttl, and the provider answers or fails; the third
\* component names the loaders that replayed an earlier failure
Loaded ==
    {<<load_pbp_data(IF expired[1] THEN Absent ELSE cache_pbp, src_pbp,
                     provider_ok[1]),
       load_roster_data(IF expired[2] THEN Absent ELSE cache_rosters,
                        src_rosters, provider_ok[2]),
       (IF replays(cache_pbp, expired[1], provider_ok[1])
        THEN {"load_pbp_data"} ELSE {})
       \cup (IF replays(cache_rosters, expired[2], provider_ok[2])
             THEN {"load_roster_data"} ELSE {})>> :
        expired \in BOOLEAN \X BOOLEAN, provider_ok \in BOOLEAN \X BOOLEAN}

\* one run of the script with the sidebar set to (pos, weeks, range, through)
\* and the multiselect holding value
Run(pos, weeks, range, through, value) ==
    \E loaded \in Loaded :
        /\ cache_pbp' = Cached(loaded[1])
        /\ cache_rosters' = Cached(loaded[2])
        /\ \E v \in main(loaded[1], loaded[2], pos, weeks, range, through,
                         [value |-> value, options |-> view.options]) :
                /\ view' = [v EXCEPT !.replayed = loaded[3]]
                /\ selected_display_names' = v.selected
        /\ position' = pos
        /\ selected_weeks' = weeks
        /\ use_range' = range
        /\ week_end' = through
        /\ UNCHANGED <<src_pbp, src_rosters, call, ret>>

\* the page is loaded or refreshed
Refresh ==
    Run(position, selected_weeks, use_range, week_end, selected_display_names)

SetPosition(pos) ==
    /\ pos # position
    /\ Run(pos, selected_weeks, use_range, week_end, selected_display_names)

\* the checkbox keeps its value while it stays on the page; the "Through
\* week:" box is a new widget, on its first option, when its options change
SetWeek(weeks) ==
    /\ weeks # selected_weeks
    /\ Run(position, weeks, IF weeks = All THEN FALSE ELSE use_range, weeks,
           selected_display_names)

SetUseRange ==
    /\ selected_weeks # All
    /\ Run(position, selected_weeks, ~use_range, selected_weeks,
           selected_display_names)

SetWeekEnd(through) ==
    /\ use_range
    /\ through >= selected_weeks
    /\ through # week_end
    /\ Run(position, selected_weeks, use_range, through,
           selected_display_names)

SelectPlayer(display_name) ==
    /\ display_name \in Range(view.options) \ Range(selected_display_names)
    /\ Len(selected_display_names) < MaxSelections
    /\ Run(position, selected_weeks, use_range, week_end,
           Append(selected_display_names, display_name))

DeselectPlayer(display_name) ==
    /\ display_name \in Range(selected_display_names)
    /\ Run(position, selected_weeks, use_range, week_end,
           SelectSeq(selected_display_names, LAMBDA d : d # display_name))

Next ==
    \/ Refresh
    \/ \E pos \in Positions : SetPosition(pos)
    \/ \E weeks \in 0..MaxWeek : SetWeek(weeks)
    \/ SetUseRange
    \/ \E through \in 1..MaxWeek : SetWeekEnd(through)
    \/ \E display_name \in Range(view.options) : SelectPlayer(display_name)
    \/ \E display_name \in Range(view.options) : DeselectPlayer(display_name)

Spec == Init /\ [][Next]_vars

-----------------------------------------------------------------------------
(* The functions applied on their own *)

\* the players of a Comparison Table handed to create_comparison_chart
ChartPlayers ==
    << <<"A">>, <<"B">>, <<"C">>, <<"D">>, <<"E">> >>
\* the metrics charted: two with a reference line, CPOE, one without
ChartMetrics == {"EPA/Play", "CPOE", "Success Rate", "Plays"}
\* the teams of its players; the last has no colour in TEAM_COLORS
ChartTeams == << KC, SF, BUF, BLT, PHI >>

ChartTeam(player) ==
    ChartTeams[CHOOSE i \in 1..Len(ChartPlayers) : ChartPlayers[i] = player]

\* the Comparison Tables of up to MaxRows rows, with the column of metric:
\* its values are 0.05, 0.10 and a missing value
ChartTables(metric) ==
    {[i \in 1..Len(values) |->
        ("Player" :> ChartPlayers[i]) @@ (metric :> values[i])] :
     values \in SeqsUpTo({Frac(5, 100), Frac(10, 100), NaN}, MaxRows) \ {<< >>}}

\* the applications of create_comparison_chart, also for a position that
\* REFERENCE_LINES does not know; player_teams has no entry for the player
\* of the last row
ChartCalls ==
    UNION {{[fn |-> "create_comparison_chart", stats_df |-> stats_df,
             metric |-> metric,
             player_teams |->
                 [player \in {stats_df[i]["Player"] :
                                 i \in 1..(Len(stats_df) - 1)} |->
                     ChartTeam(player)],
             position |-> pos] :
            pos \in Positions \cup {"K"}, stats_df \in ChartTables(metric)} :
           metric \in ChartMetrics}

\* the applications of the three aggregators
StatsCalls ==
    {[fn |-> fn, pbp |-> pbp, player_name |-> player_name, team |-> team] :
     fn \in {"calculate_qb_stats", "calculate_rb_stats",
             "calculate_wr_te_stats"},
     pbp \in PbpTables, player_name \in Names, team \in Teams}

\* the applications of get_player_display_name
NameCalls ==
    {[fn |-> "get_player_display_name", abbreviated_name |-> name,
      team |-> team, pbp |-> pbp, rosters |-> rosters, position |-> pos] :
     name \in {Purdy, Pacheco, McCaffrey, Kelce}, team \in Teams,
     pbp \in PbpTables, rosters \in RosterTables, pos \in {"QB", "RB", "TE"}}

InitFn ==
    /\ src_pbp = << >>
    /\ src_rosters = << >>
    /\ cache_pbp = Absent
    /\ cache_rosters = Absent
    /\ position = "QB"
    /\ selected_weeks = All
    /\ use_range = FALSE
    /\ week_end = 0
    /\ selected_display_names = << >>
    /\ view = BlankView
    /\ call \in StatsCalls \cup NameCalls \cup ChartCalls
    /\ ret = [done |-> FALSE, value |-> << >>]

\* the function returns value
Return(value) ==
    /\ ret' = [done |-> TRUE, value |-> value]
    /\ UNCHANGED <<src_pbp, src_rosters, cache_pbp, cache_rosters, position,
                   selected_weeks, use_range, week_end,
                   selected_display_names, view, call>>

ApplyQB ==
    /\ ~ret.done
    /\ call.fn = "calculate_qb_stats"
    /\ Return(calculate_qb_stats(call.pbp, call.player_name, call.team))

ApplyRB ==
    /\ ~ret.done
    /\ call.fn = "calculate_rb_stats"
    /\ Return(calculate_rb_stats(call.pbp, call.player_name, call.team))

ApplyWRTE ==
    /\ ~ret.done
    /\ call.fn = "calculate_wr_te_stats"
    /\ Return(calculate_wr_te_stats(call.pbp, call.player_name, call.team))

ApplyDisplayName ==
    /\ ~ret.done
    /\ call.fn = "get_player_display_name"
    /\ Return(get_player_display_name(call.abbreviated_name, call.team,
                                      call.pbp, call.rosters, call.position))

ApplyChart ==
    /\ ~ret.done
    /\ call.fn = "create_comparison_chart"
    /\ \E fig \in create_comparison_chart(call.stats_df, call.metric,
                                          metric_title(call.metric),
                                          call.player_teams,
                                          call.position) :
            Return(fig)

NextFn ==
    \/ ApplyQB
    \/ ApplyRB
    \/ ApplyWRTE
    \/ ApplyDisplayName
    \/ ApplyChart

SpecFn == InitFn /\ [][NextFn]_vars

-----------------------------------------------------------------------------
(* Properties of a run of main() *)

\* the run reached the end of the stats loop
Ran == view.status \in {"no_stats", "rendered"}

\* the plays of the filtered table in which (name, team) has the role, or
\* one of the two roles, of the position
RolePlays(pbp, pos, name, team) ==
    {i \in 1..Len(pbp) :
        /\ pbp[i].posteam = team
        /\ \/ pos = "QB" /\ pbp[i].passer_player_name = name
           \/ pos = "RB" /\ pbp[i].rusher_player_name = name
           \/ pos = "RB" /\ pbp[i].receiver_player_name = name
           \/ pos \in {"WR", "TE"} /\ pbp[i].receiver_player_name = name}

\* the selected players that have no play under the current filter
Playless ==
    {i \in 1..Len(view.selected_players) :
        RolePlays(view.pbp, position, view.selected_players[i][1],
                  view.selected_players[i][2]) = {}}

\* C1: for each of the three positions' aggregators, a selected player key
\* with zero matching plays in the filtered table gets None from the
\* aggregator, not a record, and main() adds no row for it: the Comparison
\* Table has as many rows as there are selected players with plays.
C1_ZeroPlaysNoRecord ==
    Ran =>
        /\ \A i \in Playless : view.returned[i] = None
        /\ Len(view.table) = Len(view.selected_players) - Cardinality(Playless)

\* a table was drawn although one of the selected players had no play
C1_Witness ==
    /\ view.status = "rendered"
    /\ Playless # {}
    /\ Len(view.table) >= 1

\* the name holds one of the texts that the claim lists for two decimals
TwoDecimalName(col) ==
    \E sub \in {<<"%">>, <<"R", "a", "t", "e">>, <<"E", "P", "A">>,
                <<"C", "P", "O", "E">>, <<"Y", "a", "r", "d", "s">>,
                <<"Y", "A", "C">>} :
        Contains(sub, ColumnChars[col])

\* shown is a multiple of 1/100 that is no further than 1/200 from val
NearestHundredth(shown, val) ==
    /\ Len(shown) = 2
    /\ 100 % shown[2] = 0
    /\ 200 * Abs(shown[1] * val[2] - val[1] * shown[2]) <= shown[2] * val[2]

\* shown is an integer, no further than 1/2 from val
NearestInteger(shown, val) ==
    /\ Len(shown) = 1
    /\ 2 * Abs(shown[1] * val[2] - val[1]) <= val[2]

\* C3: in the displayed table every numeric column is rounded by its name
\* alone: a name holding '%', 'Rate', 'EPA', 'CPOE', 'Yards' or 'YAC' gives
\* the value rounded to 2 decimals (a missing value stays missing), every
\* other numeric column gives the nearest integer, shown as an integer.
C3_RoundingByName ==
    view.status = "rendered" =>
        /\ Len(view.display) = Len(view.table)
        /\ \A i \in 1..Len(view.table) :
             /\ DOMAIN view.display[i] = DOMAIN view.table[i]
             /\ \A col \in DOMAIN view.table[i] \ {"Player"} :
                  IF TwoDecimalName(col)
                  THEN IF isna(view.table[i][col])
                       THEN isna(view.display[i][col])
                       ELSE NearestHundredth(view.display[i][col],
                                             view.table[i][col])
                  ELSE /\ notna(view.table[i][col])
                       /\ NearestInteger(view.display[i][col],
                                         view.table[i][col])

\* EPA/Play 0.125 is shown as 0.12, the 2 plays as the integer 2, and a
\* YAC/Comp of 4 as 4.00
C3_Witness ==
    /\ view.status = "rendered"
    /\ position = "QB"
    /\ \E i \in 1..Len(view.table) :
         /\ view.table[i]["EPA/Play"] = <<1, 8>>
         /\ view.display[i]["EPA/Play"] = <<3, 25>>
         /\ view.table[i]["Plays"] = <<2, 1>>
         /\ view.display[i]["Plays"] = <<2>>
         /\ view.display[i]["YAC/Comp"] = <<4, 1>>

\* the selected players for whom the aggregator returned a record
Productive == {i \in 1..Len(view.returned) : view.returned[i] # None}

\* the k-th smallest element of a set of numbers
Nth(S, k) == CHOOSE i \in S : Cardinality({j \in S : j < i}) = k - 1

\* C6: the Comparison Table has exactly one row per selected player for
\* whom the aggregator returned a record, in selection order (row k is the
\* record of the k-th such player, under the display name selected for
\* them), and neither the selection nor the table ever exceeds 5.
C6_OneRowPerRecord ==
    /\ Len(view.selected) <= 5
    /\ Len(view.table) <= 5
    /\ Ran =>
        /\ Len(view.returned) = Len(view.selected)
        /\ Len(view.table) = Cardinality(Productive)
        /\ \A k \in 1..Len(view.table) :
             /\ view.table[k]["Player"] = view.selected[Nth(Productive, k)]
             /\ \A col \in DOMAIN view.table[k] \ {"Player"} :
                  view.table[k][col] = view.returned[Nth(Productive, k)][col]

\* five players are selected, not in the order of the dropdown, and the
\* table has their five rows
C6_Witness ==
    /\ view.status = "rendered"
    /\ Len(view.table) = 5
    /\ Len(view.options) = 6
    /\ view.selected[1] = view.options[6]
    /\ view.selected[2] = view.options[1]

\* the plays of the provider's table that the sidebar's week selection keeps
KeptWeeks ==
    {i \in 1..Len(src_pbp) :
        IF selected_weeks = All THEN TRUE
        ELSE IF use_range
        THEN selected_weeks <= src_pbp[i].week /\ src_pbp[i].week <= week_end
        ELSE src_pbp[i].week = selected_weeks}

\* the run got past the loading of the data
Loads == view.status \notin {"start", "load_failed"}

LoadFailed ==
    \/ cache_pbp.cached /\ cache_pbp.value = None
    \/ cache_rosters.cached /\ cache_rosters.value = None

\* C9: when the play-by-play or the roster load fails, the loader shows its
\* error message and returns None (nothing is raised), and main() shows
\* "Failed to load data" and returns before any player list, table, chart
\* or export exists.
C9_LoadFailureAborts ==
    LoadFailed =>
        /\ view.status = "load_failed"
        /\ cache_pbp.value = None
              => "Error loading play-by-play data" \in view.errors
        /\ cache_rosters.value = None
              => "Error loading roster data" \in view.errors
        /\ "Failed to load data" \in view.errors
        /\ view.options = << >>
        /\ view.dropdown = << >>
        /\ view.selected = << >>
        /\ view.table = << >>
        /\ view.display = << >>
        /\ view.figures = << >>
        /\ view.csv = None

\* the roster load failed while the play-by-play load succeeded
C9_Witness ==
    /\ cache_rosters.cached /\ cache_rosters.value = None
    /\ cache_pbp.cached /\ cache_pbp.value # None
    /\ view.status = "load_failed"

\* the selected passers that have plays under the current filter, none of
\* them a completed pass
Uncompleted ==
    {i \in 1..Len(view.selected_players) :
        LET plays == RolePlays(view.pbp, "QB", view.selected_players[i][1],
                               view.selected_players[i][2])
        IN  /\ plays # {}
            /\ \A j \in plays : view.pbp[j].complete_pass # R(1)}

\* the row of the Comparison Table that holds the i-th selected player
RowOf(i) == CHOOSE k \in 1..Len(view.table) : Nth(Productive, k) = i

\* C11: a selected passer with at least one matching play and no completed
\* pass gets a record from calculate_qb_stats whose 'YAC/Comp' is NaN, and
\* the run of main() ends rendered, not with an exception: the table, the
\* rounded table and the CSV rows hold NaN in that cell, and the four key
\* metric charts are drawn.
C11_NoCompletionsRenders ==
    (position = "QB" /\ view.returned # << >>) =>
        \A i \in Uncompleted :
            /\ view.returned[i] # None
            /\ isna(view.returned[i]["YAC/Comp"])
            /\ view.status = "rendered"
            /\ isna(view.table[RowOf(i)]["YAC/Comp"])
            /\ isna(view.display[RowOf(i)]["YAC/Comp"])
            /\ isna(view.csv.rows[RowOf(i)]["YAC/Comp"])
            /\ Len(view.figures) = 4

\* a passer whose only play is a sack is compared with another passer: his
\* row has neither a YAC/Comp nor a CPOE, and the page is rendered
C11_Witness ==
    /\ position = "QB"
    /\ view.status = "rendered"
    /\ \E i \in Uncompleted :
         /\ isna(view.display[RowOf(i)]["YAC/Comp"])
         /\ isna(view.display[RowOf(i)]["CPOE"])
    /\ \E k \in 1..Len(view.table) : notna(view.table[k]["YAC/Comp"])

\* C12: a failed fetch is not kept by the cache: an entry of the cache
\* holds a successfully loaded table, never the None of a failure, so no
\* later run returns an earlier failure while the provider is reachable.
C12_FailureNotCached ==
    /\ cache_pbp.cached => cache_pbp.value # None
    /\ cache_rosters.cached => cache_rosters.value # None
    /\ view.replayed = {}

\* the provider is reachable for both tables, yet the run ends with
\* "Failed to load data": the play-by-play loader returned the None that
\* the cache kept from an earlier run
C12_FailureReplayed ==
    /\ view.status = "load_failed"
    /\ view.replayed = {"load_pbp_data"}
    /\ cache_pbp.value = None
    /\ cache_rosters.value # None

\* what the selection of display_name decodes to: the parts of its key
Decoded(display_name) == Split(DictAt(view.dropdown, display_name))

\* C13: every player key (abbreviated name, team) that passed the position
\* filter has an entry in the dropdown whose key splits back into exactly
\* that name and that team, and the key of every entry splits into two
\* parts, so that decoding a selection never fails.
C13_KeyRoundTrip ==
    view.options # << >> =>
        /\ \A k \in 1..Len(view.filtered) :
              \E j \in 1..Len(view.options) :
                  Decoded(view.options[j])
                      = <<view.filtered[k][1], view.filtered[k][2]>>
        /\ \A j \in 1..Len(view.options) :
              Len(Decoded(view.options[j])) = 2

\* the receiver whose name holds "|" is selected with another receiver: the
\* key splits into three parts and the run ends with an exception
C13_DecodingFails ==
    /\ view.status = "exception"
    /\ Len(view.selected) = 2
    /\ \E j \in 1..Len(view.selected) :
         /\ Len(Decoded(view.selected[j])) = 3
         /\ \E k \in 1..Len(view.filtered) : view.filtered[k][1] = Piped

\* the identifiers that the plays of the filtered table give to (name, team)
\* in a role of the position
OwnIds(name, team) ==
    {view.pbp[i].passer_player_id : i \in {j \in 1..Len(view.pbp) :
        /\ position = "QB"
        /\ view.pbp[j].posteam = team
        /\ view.pbp[j].passer_player_name = name}}
    \cup {view.pbp[i].rusher_player_id : i \in {j \in 1..Len(view.pbp) :
        /\ position = "RB"
        /\ view.pbp[j].posteam = team
        /\ view.pbp[j].rusher_player_name = name}}
    \cup {view.pbp[i].receiver_player_id : i \in {j \in 1..Len(view.pbp) :
        /\ position \in {"RB", "WR", "TE"}
        /\ view.pbp[j].posteam = team
        /\ view.pbp[j].receiver_player_name = name}}

\* the run ended in the position filter, on a read of the unbound player_id
FilterRaised == view.status = "exception" /\ view.options = << >>

\* C14: in the position filter the identifier tested for a player key is
\* the identifier of a play of that key (same team, and the key's name in
\* the role the identifier belongs to), never that of another key's play
\* and never an unbound variable; so every player offered for selection
\* has an identifier of his own that the roster lists under the selected
\* position.
C14_IdFromOwnPlay ==
    /\ ~FilterRaised
    /\ \A e \in view.examined : e.player_id \in OwnIds(e.name, e.team)
    /\ \A k \in 1..Len(view.filtered) :
          \E id \in OwnIds(view.filtered[k][1], view.filtered[k][2]) :
              \E r \in 1..Len(src_rosters) :
                  /\ src_rosters[r].player_id = id
                  /\ src_rosters[r].position = position

\* for "RB" the tight end who caught the pass before the lateral is tested
\* with the identifier of the running back who ran with it, and is offered
\* as a running back
C14_OfferedByAnothersId ==
    /\ position = "RB"
    /\ [name |-> Kelce, team |-> SF, player_id |-> IdMcCaffrey]
           \in view.examined
    /\ \E k \in 1..Len(view.filtered) : view.filtered[k] = <<Kelce, SF>>
    /\ view.options # << >>

-----------------------------------------------------------------------------
(* Properties of the functions *)

\* the application of fn has returned
Returned(fn) == call.fn = fn /\ ret.done

\* C2: create_comparison_chart orders the rows ascending by the metric with
\* a stable sort: of two rows of equal metric value, the one that is first
\* in the Comparison Table is first in the chart.
C2_StableAscending ==
    Returned("create_comparison_chart") =>
        \A a, b \in 1..Len(ret.value.rows) :
            (a < b /\ notna(ret.value.x[a]) /\ notna(ret.value.x[b])) =>
                /\ RatLE(ret.value.x[a], ret.value.x[b])
                /\ ret.value.x[a] = ret.value.x[b]
                       => ret.value.rows[a] < ret.value.rows[b]

\* values [0.10, 0.10, 0.05] for players [A, B, C] are drawn as [C, B, A]
C2_TiesReordered ==
    /\ Returned("create_comparison_chart")
    /\ Len(call.stats_df) = 3
    /\ \A i \in 1..3 :
         call.stats_df[i][call.metric] = <<<<1, 10>>, <<1, 10>>, <<1, 20>>>>[i]
    /\ ret.value.y = << <<"C">>, <<"B">>, <<"A">> >>

\* the plays in which the abbreviated name has the position's role for team
NamePlays ==
    {i \in 1..Len(call.pbp) :
        /\ call.pbp[i].posteam = call.team
        /\ \/ call.position = "QB"
              /\ call.pbp[i].passer_player_name = call.abbreviated_name
           \/ call.position = "RB"
              /\ call.pbp[i].rusher_player_name = call.abbreviated_name
           \/ call.position = "RB"
              /\ call.pbp[i].receiver_player_name = call.abbreviated_name
           \/ call.position \notin {"QB", "RB"}
              /\ call.pbp[i].receiver_player_name = call.abbreviated_name}

\* the role identifier of the first of these plays
RoleId ==
    LET play == call.pbp[Nth(NamePlays, 1)]
    IN  IF call.position = "QB" THEN play.passer_player_id
        ELSE IF call.position = "RB" /\ play.rusher_player_id # NaN
        THEN play.rusher_player_id
        ELSE play.receiver_player_id

\* the roster rows with that identifier
IdRows == {j \in 1..Len(call.rosters) : call.rosters[j].player_id = RoleId}

\* the football name of the first of these rows unless it is missing or
\* blank, else its first name
PreferredFirst ==
    LET row == call.rosters[Nth(IdRows, 1)]
    IN  IF row.football_name # NaN
           /\ \E k \in 1..Len(row.football_name) :
                  row.football_name[k] \notin {"", " "}
        THEN row.football_name
        ELSE row.first_name

\* one of the claim's reasons for the fallback holds
Degraded ==
    \/ NamePlays = {}
    \/ RoleId = NaN
    \/ IdRows = {}
    \/ call.rosters[Nth(IdRows, 1)].last_name = NaN
    \/ PreferredFirst = NaN

C5_ReferenceLine ==
    Returned("create_comparison_chart") =>
        LET listed == /\ call.metric # "CPOE"
                      /\ call.position \in DOMAIN REFERENCE_LINES
                      /\ call.metric \in DOMAIN REFERENCE_LINES[call.position]
        IN  /\ notna(ret.value.vline) <=> listed
            /\ listed =>
                 ret.value.vline = REFERENCE_LINES[call.position][call.metric]
            /\ (call.position = "QB" /\ call.metric = "EPA/Play")
                 => ret.value.vline = <<1, 10>>
            /\ call.metric = "CPOE" => isna(ret.value.vline)

\* the QB chart of EPA/Play has its line at 0.10
C5_Witness ==
    /\ Returned("create_comparison_chart")
    /\ call.position = "QB"
    /\ call.metric = "EPA/Play"
    /\ ret.value.vline = <<1, 10>>

\* one of the three aggregators has returned
ReturnedStats ==
    /\ ret.done
    /\ call.fn \in {"calculate_qb_stats", "calculate_rb_stats",
                    "calculate_wr_te_stats"}

\* every success and completion flag of the table is 0 or 1
WellFormedFlags ==
    \A i \in 1..Len(call.pbp) :
        /\ call.pbp[i].success \in {<<0, 1>>, <<1, 1>>}
        /\ call.pbp[i].complete_pass \in {<<0, 1>>, <<1, 1>>}

\* C7: when every success and completion flag is 0 or 1, each 'Success
\* Rate', 'Rush Success Rate', 'Comp %' and 'Catch %' of a record that an
\* aggregator returns is a number from 0 to 100.
C7_RatesWithinRange ==
    (ReturnedStats /\ WellFormedFlags /\ ret.value # None) =>
        \A col \in DOMAIN ret.value \cap {"Success Rate", "Rush Success Rate",
                                          "Comp %", "Catch %"} :
            /\ notna(ret.value[col])
            /\ 0 <= ret.value[col][1]
            /\ ret.value[col][1] <= 100 * ret.value[col][2]

\* two passes, one of them successful and complete: 50 and 50
C7_Witness ==
    /\ ReturnedStats
    /\ WellFormedFlags
    /\ call.fn = "calculate_qb_stats"
    /\ Len(call.pbp) = 2
    /\ ret.value # None
    /\ ret.value["Success Rate"] = <<50, 1>>
    /\ ret.value["Comp %"] = <<50, 1>>

\* the rushes and the targets of the player in the table
RushIdx ==
    {i \in 1..Len(call.pbp) :
        /\ call.pbp[i].rusher_player_name = call.player_name
        /\ call.pbp[i].posteam = call.team}
TargetIdx ==
    {i \in 1..Len(call.pbp) :
        /\ call.pbp[i].receiver_player_name = call.player_name
        /\ call.pbp[i].posteam = call.team}

\* C10: calculate_rb_stats keeps rushing and receiving apart: without
\* rushes (and with a target) the five rushing metrics are 0, without
\* targets (and with a rush) the five receiving metrics are 0; 'Rush TDs' is
\* the number of rushes with the rushing-touchdown flag, 'Rec TDs' the
\* number of targets with the touchdown flag.
C10_RushAndReceivingApart ==
    (Returned("calculate_rb_stats") /\ ret.value # None) =>
        /\ (RushIdx = {} /\ TargetIdx # {}) =>
             \A col \in {"Rush Attempts", "Rush EPA/Play", "Rush Success Rate",
                         "Rush Yards", "Rush TDs"} : ret.value[col] = <<0, 1>>
        /\ (TargetIdx = {} /\ RushIdx # {}) =>
             \A col \in {"Targets", "Rec EPA/Target", "Receptions",
                         "Rec Yards", "Rec TDs"} : ret.value[col] = <<0, 1>>
        /\ ret.value["Rush TDs"] =
             <<Cardinality({i \in RushIdx :
                              call.pbp[i].rush_touchdown = <<1, 1>>}), 1>>
        /\ ret.value["Rec TDs"] =
             <<Cardinality({i \in TargetIdx :
                              call.pbp[i].pass_touchdown = <<1, 1>>}), 1>>

\* a player with a touchdown catch and no rush: the rushing metrics are 0
C10_Witness ==
    /\ Returned("calculate_rb_stats")
    /\ RushIdx = {}
    /\ TargetIdx # {}
    /\ ret.value # None
    /\ ret.value["Rec TDs"] = <<1, 1>>
    /\ ret.value["Rush Attempts"] = <<0, 1>>

=============================================================================
